---- MODULE Spec2Model ----
(***************************************************************************)
(* The HR backend (backend/companies, backend/accounts): the Company,      *)
(* Department and Employee tables with their storage-level constraints and *)
(* cascades, the accounts with their role and superuser flag, the          *)
(* permission classes, and the handlers of CompanyViewSet,                 *)
(* DepartmentViewSet and EmployeeViewSet with their serializers.           *)
(*                                                                         *)
(* A writing request is handled in two steps, as the view does: the first  *)
(* checks the permissions, loads the instance and runs                     *)
(* serializer.is_valid() (reads only), the second is serializer.save()     *)
(* (the write).  Requests of different worker processes interleave between *)
(* the two.  Deletes and reads are one step.  Fields without any rule      *)
(* attached (mobile, address, designation, created_at) are left out of the *)
(* rows.                                                                   *)
(***************************************************************************)
EXTENDS Integers, Sequences, FiniteSets, TLC

VARIABLES companies, departments, employees, nextCompanyId, nextDeptId, nextId,
          today, req, users

vars == <<companies, departments, employees, nextCompanyId, nextDeptId, nextId,
          today, req, users>>

\* ---------------------------------------------------------------- bounds
MaxEmployees == 2
MaxDay == 2
MaxCompanies == 4
MaxDepartments == 5

\* ------------------------------------------------------------- constants
APPLICATION_RECEIVED == "application received"
INTERVIEW_SCHEDULED == "interview scheduled"
NOT_ACCEPTED == "not accepted"
HIRED == "hired"

EmployeeStatus == {APPLICATION_RECEIVED, INTERVIEW_SCHEDULED, NOT_ACCEPTED, HIRED}

\* hired_on = NULL (null=True on the DateField); dates are day numbers >= 1.
Null == 0

\* A field the request body does not carry.
Absent == "absent"
NoDept == 0
NoEmail == << >>

\* Two managers without superuser status: the users of the employee routes.
Users == {"m1", "m2"}

\* request.user of a request without credentials (AnonymousUser).
Anonymous == "anonymous"

\* Every account: the two managers, a superuser ("root", role admin by
\* CustomUser.save), a superuser whose role was set to manager ("sm"), a user
\* whose role was set to admin without superuser status ("ra") and a user of
\* role employee ("emp").
Accounts == Users \cup {"root", "sm", "ra", "emp"}

\* CustomUser.role
role(user) ==
    CASE user \in {"m1", "m2", "sm"} -> "manager"
      [] user \in {"root", "ra"} -> "admin"
      [] user = "emp" -> "employee"
      [] OTHER -> ""

\* AbstractUser.is_superuser
is_superuser(user) == user \in {"root", "sm"}
Procs == {1, 2}
CompanyIds == {1, 2}
DeptIds == {1, 2, 3}
EmpIds == 1..MaxEmployees
Days == 1..MaxDay

\* Email addresses, as sequences of letters (the text before a fixed domain).
Emails == {<<"a">>, <<"A">>}

\* Names of departments and of companies.
DeptNames == {"a", "b"}
CompanyNames == {"x", "y"}

\* The ids a company or a department can have.
CompanyPks == 1..MaxCompanies
DeptPks == 1..MaxDepartments

RaceEmails == {<<"a">>}
RaceDepts == {1}

\* str.lower()
LowerChar(c) == CASE c = "A" -> "a" [] c = "B" -> "b" [] OTHER -> c
Lower(s) == [i \in DOMAIN s |-> LowerChar(s[i])]

\* ------------------------------------------------------------------ model
\* Employee.clean as it would be were save() to skip the check.
Employee_clean_Skipped(row) == TRUE

\* Employee.clean: TRUE when the row passes, FALSE when it raises
\* django.core.exceptions.ValidationError.
Employee_clean(row) ==
    /\ ~(row.status = HIRED /\ row.hired_on = Null)
    /\ ~(row.status # HIRED /\ row.hired_on # Null)

\* The unique index on Employee.email: TRUE when writing `email` into row `pk`
\* collides with another row.
EmailTaken(emps, pk, email) ==
    \E o \in DOMAIN emps : o # pk /\ emps[o].email = email

\* Employee.company
Employee_company(row) == departments[row.department].company

\* IsCompanyManager.has_permission
IsCompanyManager(user, cpk) ==
    cpk \in DOMAIN companies /\ companies[cpk].manager = user

\* EmployeeViewSet.get_queryset: the employees get_object() can find.
EmployeeQueryset(cpk) ==
    {e \in DOMAIN employees :
        /\ employees[e].department \in DOMAIN departments
        /\ departments[employees[e].department].company = cpk}

\* permissions.IsAuthenticated with every check passing.
IsAuthenticated_Always(user) == TRUE

\* rest_framework.permissions.IsAuthenticated
IsAuthenticated(user) == user # Anonymous

\* APIView.check_permissions over [IsAuthenticated, IsCompanyManager], in that
\* order: 0 when both grant, else the status of the first that denies.
NestedPermission(user, cpk) ==
    IF ~IsAuthenticated(user) THEN 401
    ELSE IF ~IsCompanyManager(user, cpk) THEN 403
    ELSE 0

Idle == [pc |-> "idle"]

\* A record of the request of `user`.
By(user, rec) == [user |-> user] @@ rec

\* A record of a request on the collection route under /companies/<cpk>/.
At(cpk, rec) == [cpk |-> cpk] @@ rec

Done(op, pk, want, code, err) ==
    [pc |-> "done", op |-> op, pk |-> pk, want |-> want, code |-> code, err |-> err]

Validated(op, pk, want, inst) ==
    [pc |-> "validated", op |-> op, pk |-> pk, want |-> want, inst |-> inst]

\* APIView.permission_denied: NotAuthenticated or PermissionDenied.
Denied(op, code) ==
    Done(op, 0, Absent, code,
         {IF code = 401 THEN "NotAuthenticated" ELSE "PermissionDenied"})

InFlightCreates ==
    Cardinality({q \in Procs : req[q].pc = "validated" /\ req[q].op = "create"})

\* Model.save(): clean(), then the INSERT or UPDATE under the unique index on
\* email and the foreign key to Department.  "ok", or the exception raised.
SaveOutcome(pk, row) ==
    IF ~Employee_clean(row) THEN "ValidationError"
    ELSE IF EmailTaken(employees, pk, row.email) THEN "IntegrityError"
    ELSE IF row.department \notin DOMAIN departments THEN "IntegrityError"
    ELSE "ok"

\* The table with row pk written: UPDATE, or INSERT when no row has that pk.
Put(emps, pk, row) ==
    [e \in DOMAIN emps \cup {pk} |-> IF e = pk THEN row ELSE emps[e]]

\* Employee.get_days_employed with the operands of the subtraction swapped.
get_days_employed_Reversed(e) ==
    IF employees[e].hired_on = Null THEN 0 ELSE employees[e].hired_on - today

\* Employee.get_days_employed: 0 without a hire date, otherwise the days of
\* timezone.now().date() - hired_on.
get_days_employed(e) ==
    IF employees[e].hired_on = Null THEN 0 ELSE today - employees[e].hired_on

\* ----------------------------------------------------------------- create
\* EmployeeCreateSerializer: field validation (with the UniqueValidator the
\* ModelSerializer derives from unique=True), then validate().  hired_on is
\* no field of the serializer.  The set of errors; {} when the data is valid.
CreateErrors(user, body) ==
    LET fieldErrs ==
            (IF body.company \notin DOMAIN companies THEN {"company"} ELSE {})
            \cup (IF body.department \notin DOMAIN departments
                  THEN {"department"} ELSE {})
            \cup (IF body.email = NoEmail THEN {"required"} ELSE {})
            \cup (IF body.email # NoEmail /\ EmailTaken(employees, 0, body.email)
                  THEN {"email"} ELSE {})
    IN  IF fieldErrs # {} THEN fieldErrs
        ELSE IF body.status = Absent THEN {"KeyError"}
        ELSE IF companies[body.company].manager # user THEN {"non_field"}
        ELSE IF departments[body.department].company # body.company
        THEN {"non_field"}
        ELSE {}

\* EmployeeCreateSerializer's validated_data, less the popped company.
CreateData(body) ==
    [department |-> body.department, email |-> body.email,
     status |-> body.status, hired_on |-> Null]

\* EmployeeViewSet.create up to serializer.is_valid()
EmployeeCreateBegin(p, U, E, D) ==
    /\ UNCHANGED users
    /\ req[p].pc = "idle"
    /\ nextId + InFlightCreates <= MaxEmployees
    /\ \E user \in U, cpk \in CompanyIds :
        IF NestedPermission(user, cpk) # 0
        THEN req' = [req EXCEPT ![p] =
                        By(user, Denied("create", NestedPermission(user, cpk)))]
        ELSE \E company \in CompanyIds, department \in D,
                email \in E \cup {NoEmail},
                status \in EmployeeStatus \cup {Absent},
                hired_on \in {Null, MaxDay} :
            LET body == [company |-> company, department |-> department,
                         email |-> email, status |-> status,
                         hired_on |-> hired_on]
                errs == CreateErrors(user, body)
            IN  req' = [req EXCEPT ![p] = At(cpk, By(user,
                    IF errs = {"KeyError"}
                    THEN Done("create", 0, status, 500, errs)
                    ELSE IF errs # {}
                    THEN Done("create", 0, status, 400, errs)
                    ELSE Validated("create", 0, status, CreateData(body))))]
    /\ UNCHANGED <<companies, departments, nextCompanyId, nextDeptId,
                 employees, nextId, today>>

\* EmployeeCreateSerializer.create, from serializer.save()
EmployeeCreateSave(p) ==
    /\ UNCHANGED users
    /\ req[p].pc = "validated"
    /\ req[p].op = "create"
    /\ LET row == req[p].inst
           out == SaveOutcome(nextId, row)
       IN  IF out = "ok"
           THEN /\ employees' = Put(employees, nextId, row)
                /\ nextId' = nextId + 1
                /\ req' = [req EXCEPT ![p] = At(req[p].cpk, By(req[p].user,
                              Done("create", nextId, req[p].want, 201, {})))]
           ELSE /\ UNCHANGED <<employees, nextId>>
                /\ req' = [req EXCEPT ![p] = At(req[p].cpk, By(req[p].user,
                              Done("create", 0, req[p].want, 500, {out})))]
    /\ UNCHANGED <<companies, departments, nextCompanyId, nextDeptId,
                 today>>

\* ----------------------------------------------------------------- update
\* validate_status with "hired" wrongly listed after "application received".
validate_status_SkipsInterview(instance, value) ==
    \/ value = instance.status
    \/ /\ instance.status = APPLICATION_RECEIVED
       /\ value \in {INTERVIEW_SCHEDULED, NOT_ACCEPTED, HIRED}
    \/ /\ instance.status = INTERVIEW_SCHEDULED
       /\ value \in {HIRED, NOT_ACCEPTED}

\* validate_status without the lookup in valid_transitions: every change
\* away from a status that is not terminal is let through.
validate_status_NoTable(instance, value) ==
    /\ value \in {APPLICATION_RECEIVED, INTERVIEW_SCHEDULED, HIRED, NOT_ACCEPTED}
    /\ \/ value = instance.status
       \/ instance.status \notin {HIRED, NOT_ACCEPTED}

\* EmployeeUpdateSerializer.validate_status: TRUE when the value is returned,
\* FALSE when ValidationError is raised.
validate_status(instance, value) ==
    IF value \notin {APPLICATION_RECEIVED, INTERVIEW_SCHEDULED, HIRED, NOT_ACCEPTED}
    THEN FALSE
    ELSE IF value = instance.status THEN TRUE
    ELSE IF instance.status \in {HIRED, NOT_ACCEPTED} THEN FALSE
    ELSE LET valid_transitions ==
                 [s \in {APPLICATION_RECEIVED, INTERVIEW_SCHEDULED} |->
                     IF s = APPLICATION_RECEIVED
                     THEN {INTERVIEW_SCHEDULED, NOT_ACCEPTED}
                     ELSE {HIRED, NOT_ACCEPTED}]
         IN  value \in valid_transitions[instance.status]

\* The statuses that the message of validate_status's ValidationError
\* names: none in "Cannot update status of already hired or not accepted
\* employees", the two of "Cannot transition from <status> to <value>".
StatusErrorNames(instance, value) ==
    IF instance.status \in {HIRED, NOT_ACCEPTED} THEN {}
    ELSE {instance.status, value}

\* The 400 response to a status that validate_status refused carries the
\* message of the error.
WithStatusMessage(instance, value, rec) ==
    IF value \in EmployeeStatus /\ ~validate_status(instance, value)
    THEN [names |-> StatusErrorNames(instance, value)] @@ rec
    ELSE rec

\* validate_department without the company comparison.
validate_department_AnyCompany(instance, value) == TRUE

\* EmployeeUpdateSerializer.validate_department
validate_department(instance, value) ==
    departments[value].company = departments[instance.department].company

\* EmployeeUpdateSerializer.validate_email, after the field's UniqueValidator:
\* both look the submitted value up as it is, excluding the instance.
validate_email(pk, value) == ~EmailTaken(employees, pk, value)

\* EmployeeUpdateSerializer.is_valid(): the set of errors.
UpdateErrors(user, pk, body, partial) ==
    LET inst == employees[pk]
        fieldErrs ==
            (IF ~partial /\ (body.department = NoDept \/ body.email = NoEmail)
             THEN {"required"} ELSE {})
            \cup (IF body.department # NoDept
                     /\ (\/ body.department \notin DOMAIN departments
                         \/ ~validate_department(inst, body.department))
                  THEN {"department"} ELSE {})
            \cup (IF body.email # NoEmail /\ ~validate_email(pk, body.email)
                  THEN {"email"} ELSE {})
            \cup (IF body.status # Absent /\ ~validate_status(inst, body.status)
                  THEN {"status"} ELSE {})
    IN  IF fieldErrs # {} THEN fieldErrs
        ELSE IF companies[Employee_company(inst)].manager # user
        THEN {"non_field"}
        ELSE {}

\* UpdateData as it would be were hired_on a writable field of the serializer.
UpdateData_HiredOnWritable(inst, body) ==
    [department |-> IF body.department = NoDept THEN inst.department
                    ELSE body.department,
     email |-> IF body.email = NoEmail THEN inst.email ELSE Lower(body.email),
     status |-> IF body.status = Absent THEN inst.status ELSE body.status,
     hired_on |-> IF body.hired_on = Null THEN inst.hired_on ELSE body.hired_on]

\* The instance with validated_data set on it (ModelSerializer.update's
\* setattr loop); validate_email hands on the lower-cased value.
UpdateData(inst, body) ==
    [department |-> IF body.department = NoDept THEN inst.department
                    ELSE body.department,
     email |-> IF body.email = NoEmail THEN inst.email ELSE Lower(body.email),
     status |-> IF body.status = Absent THEN inst.status ELSE body.status,
     hired_on |-> inst.hired_on]

\* EmployeeViewSet.update / partial_update up to serializer.is_valid()
EmployeeUpdateBegin(p, U, E, D) ==
    /\ UNCHANGED users
    /\ req[p].pc = "idle"
    /\ \E user \in U, cpk \in CompanyIds, pk \in EmpIds :
        IF NestedPermission(user, cpk) # 0
        THEN req' = [req EXCEPT ![p] =
                        By(user, Denied("update", NestedPermission(user, cpk)))]
        ELSE IF pk \notin EmployeeQueryset(cpk)
        THEN req' = [req EXCEPT ![p] =
                        By(user, Done("update", pk, Absent, 404, {"NotFound"}))]
        ELSE \E partial \in BOOLEAN,
                department \in D \cup {NoDept},
                email \in E \cup {NoEmail},
                status \in EmployeeStatus \cup {Absent},
                hired_on \in {Null, MaxDay} :
            LET body == [department |-> department, email |-> email,
                         status |-> status, hired_on |-> hired_on]
                errs == UpdateErrors(user, pk, body, partial)
            IN  req' = [req EXCEPT ![p] = By(user,
                    IF errs # {}
                    THEN WithStatusMessage(employees[pk], status,
                             Done("update", pk, status, 400, errs))
                    ELSE Validated("update", pk, status,
                                   UpdateData(employees[pk], body)))]
    /\ UNCHANGED <<companies, departments, nextCompanyId, nextDeptId,
                 employees, nextId, today>>

\* EmployeeViewSet.update_status up to serializer.is_valid(): the serializer
\* is given the status alone (partial=True).
EmployeeUpdateStatusBegin(p, U) ==
    /\ UNCHANGED users
    /\ req[p].pc = "idle"
    /\ \E user \in U, cpk \in CompanyIds, pk \in EmpIds,
          status \in EmployeeStatus \cup {Absent} :
        LET body == [department |-> NoDept, email |-> NoEmail,
                     status |-> status, hired_on |-> Null]
        IN  req' = [req EXCEPT ![p] = By(user,
                IF NestedPermission(user, cpk) # 0
                THEN Denied("update_status", NestedPermission(user, cpk))
                ELSE IF pk \notin EmployeeQueryset(cpk)
                THEN Done("update_status", pk, Absent, 404, {"NotFound"})
                ELSE IF companies[Employee_company(employees[pk])].manager # user
                THEN Done("update_status", 0, Absent, 403, {"PermissionDenied"})
                ELSE IF status = Absent
                THEN Done("update_status", pk, status, 400, {"status"})
                ELSE IF UpdateErrors(user, pk, body, TRUE) # {}
                THEN WithStatusMessage(employees[pk], status,
                         Done("update_status", pk, status, 400,
                              UpdateErrors(user, pk, body, TRUE)))
                ELSE Validated("update_status", pk, status,
                               UpdateData(employees[pk], body)))]
    /\ UNCHANGED <<companies, departments, nextCompanyId, nextDeptId,
                 employees, nextId, today>>

\* EmployeeUpdateSerializer.update: the row that instance.save() writes.
UpdateRow(inst, want, now) ==
    IF want = HIRED THEN [inst EXCEPT !.hired_on = now] ELSE inst

\* EmployeeUpdateSerializer.update, from serializer.save()
EmployeeUpdateSave(p) ==
    /\ UNCHANGED users
    /\ req[p].pc = "validated"
    /\ req[p].op \in {"update", "update_status"}
    /\ LET pk == req[p].pk
           row == UpdateRow(req[p].inst, req[p].want, today)
           out == SaveOutcome(pk, row)
       IN  IF out = "ok"
           THEN /\ employees' = Put(employees, pk, row)
                /\ req' = [req EXCEPT ![p] = By(req[p].user,
                              Done(req[p].op, pk, req[p].want, 200, {}))]
           ELSE /\ UNCHANGED employees
                /\ req' = [req EXCEPT ![p] = By(req[p].user,
                              Done(req[p].op, pk, req[p].want, 500, {out}))]
    /\ UNCHANGED <<companies, departments, nextCompanyId, nextDeptId,
                 nextId, today>>

\* ---------------------------------------------------------------- destroy
\* A record of a request under /companies/{cpk}/departments/{dpk}/employees.
Under(cpk, dpk, rec) == [cpk |-> cpk, dpk |-> dpk] @@ rec

\* EmployeeViewSet.destroy (ModelViewSet): get_object(), instance.delete().
\* The route carries company_pk and department_pk; get_queryset reads the
\* first alone.
EmployeeDestroy(p, U, D) ==
    /\ UNCHANGED users
    /\ req[p].pc = "idle"
    /\ \E user \in U, cpk \in CompanyIds, pk \in EmpIds :
        IF NestedPermission(user, cpk) # 0
        THEN /\ req' = [req EXCEPT ![p] =
                           By(user, Denied("destroy", NestedPermission(user, cpk)))]
             /\ UNCHANGED employees
        ELSE \E dpk \in D :
             IF pk \notin EmployeeQueryset(cpk)
             THEN /\ req' = [req EXCEPT ![p] = By(user, Under(cpk, dpk,
                                Done("destroy", pk, Absent, 404, {"NotFound"})))]
                  /\ UNCHANGED employees
             ELSE /\ employees' = [e \in DOMAIN employees \ {pk} |-> employees[e]]
                  /\ req' = [req EXCEPT ![p] = By(user, Under(cpk, dpk,
                                Done("destroy", pk, Absent, 204, {})))]
    /\ UNCHANGED <<companies, departments, nextCompanyId, nextDeptId,
                 nextId, today>>

\* ------------------------------------------------------------ departments
\* DepartmentViewSet.get_queryset: the departments get_object() can find.
DepartmentQueryset(cpk) ==
    {d \in DOMAIN departments : departments[d].company = cpk}

\* Department.objects.filter(company=company, name=name).exists()
DepartmentNameExists(company, name) ==
    \E d \in DOMAIN departments :
        departments[d].company = company /\ departments[d].name = name

\* DepartmentCreateSerializer.is_valid(): the fields name and company (a
\* PrimaryKeyRelatedField over all companies), then validate(), which reads
\* attrs["company"] and attrs["name"] of the body, on create and on update.
DepartmentErrors(user, body, partial) ==
    LET fieldErrs ==
            (IF ~partial /\ (body.name = Absent \/ body.company = Null)
             THEN {"required"} ELSE {})
            \cup (IF body.company # Null /\ body.company \notin DOMAIN companies
                  THEN {"company"} ELSE {})
    IN  IF fieldErrs # {} THEN fieldErrs
        ELSE IF body.company = Null \/ body.name = Absent THEN {"KeyError"}
        ELSE IF companies[body.company].manager # user THEN {"non_field"}
        ELSE IF DepartmentNameExists(body.company, body.name) THEN {"unique"}
        ELSE {}

\* Department.save(): the INSERT or UPDATE under the foreign key to Company.
\* The Meta in effect is the second of the class body, which declares no
\* constraint on (company, name).
DepartmentSaveOutcome(row) ==
    IF row.company \notin DOMAIN companies THEN "IntegrityError" ELSE "ok"

InFlightDepartments ==
    Cardinality({q \in Procs : req[q].pc = "validated"
                                /\ req[q].op = "create_department"})

\* DepartmentViewSet.create up to serializer.is_valid()
DepartmentCreateBegin(p, U, N) ==
    /\ UNCHANGED users
    /\ req[p].pc = "idle"
    /\ nextDeptId + InFlightDepartments <= MaxDepartments
    /\ \E user \in U, cpk \in CompanyPks :
        IF NestedPermission(user, cpk) # 0
        THEN req' = [req EXCEPT ![p] = By(user,
                        Denied("create_department", NestedPermission(user, cpk)))]
        ELSE \E name \in N \cup {Absent}, company \in CompanyPks \cup {Null} :
            LET body == [name |-> name, company |-> company]
                errs == DepartmentErrors(user, body, FALSE)
            IN  req' = [req EXCEPT ![p] = At(cpk, By(user,
                    IF errs # {}
                    THEN Done("create_department", 0, Absent, 400, errs)
                    ELSE Validated("create_department", 0, Absent, body)))]
    /\ UNCHANGED <<companies, departments, nextCompanyId, nextDeptId,
                 employees, nextId, today>>

\* DepartmentCreateSerializer.create, from serializer.save()
DepartmentCreateSave(p) ==
    /\ UNCHANGED users
    /\ req[p].pc = "validated"
    /\ req[p].op = "create_department"
    /\ LET row == req[p].inst
           out == DepartmentSaveOutcome(row)
       IN  IF out = "ok"
           THEN /\ departments' = Put(departments, nextDeptId, row)
                /\ nextDeptId' = nextDeptId + 1
                /\ req' = [req EXCEPT ![p] = At(req[p].cpk, By(req[p].user,
                              Done("create_department", nextDeptId, Absent, 201, {})))]
           ELSE /\ UNCHANGED <<departments, nextDeptId>>
                /\ req' = [req EXCEPT ![p] = At(req[p].cpk, By(req[p].user,
                              Done("create_department", 0, Absent, 500, {out})))]
    /\ UNCHANGED <<companies, nextCompanyId, employees, nextId, today>>

\* DepartmentViewSet.update / partial_update up to serializer.is_valid()
DepartmentUpdateBegin(p, U, N) ==
    /\ UNCHANGED users
    /\ req[p].pc = "idle"
    /\ \E user \in U, cpk \in CompanyPks, pk \in DeptPks :
        IF NestedPermission(user, cpk) # 0
        THEN req' = [req EXCEPT ![p] = By(user,
                        Denied("update_department", NestedPermission(user, cpk)))]
        ELSE IF pk \notin DepartmentQueryset(cpk)
        THEN req' = [req EXCEPT ![p] = By(user,
                        Done("update_department", pk, Absent, 404, {"NotFound"}))]
        ELSE \E partial \in BOOLEAN, name \in N \cup {Absent},
                company \in CompanyPks \cup {Null} :
            LET body == [name |-> name, company |-> company]
                errs == DepartmentErrors(user, body, partial)
            IN  req' = [req EXCEPT ![p] = By(user,
                    IF errs = {"KeyError"}
                    THEN Done("update_department", pk, Absent, 500, errs)
                    ELSE IF errs # {}
                    THEN Done("update_department", pk, Absent, 400, errs)
                    ELSE Validated("update_department", pk, Absent,
                                   [departments[pk] EXCEPT !.name = name]))]
    /\ UNCHANGED <<companies, departments, nextCompanyId, nextDeptId,
                 employees, nextId, today>>

\* DepartmentCreateSerializer.update, from serializer.save(): the name is set
\* on the loaded instance and the whole row is written.
DepartmentUpdateSave(p) ==
    /\ UNCHANGED users
    /\ req[p].pc = "validated"
    /\ req[p].op = "update_department"
    /\ LET pk == req[p].pk
           row == req[p].inst
           out == DepartmentSaveOutcome(row)
       IN  IF out = "ok"
           THEN /\ departments' = Put(departments, pk, row)
                /\ req' = [req EXCEPT ![p] = By(req[p].user,
                              Done("update_department", pk, Absent, 200, {}))]
           ELSE /\ UNCHANGED departments
                /\ req' = [req EXCEPT ![p] = By(req[p].user,
                              Done("update_department", pk, Absent, 500, {out}))]
    /\ UNCHANGED <<companies, nextCompanyId, nextDeptId, employees, nextId, today>>

\* A delete that leaves the employees of the deleted departments behind.
CascadeEmployees_Keep(gone) == employees

\* Collector.delete for on_delete=CASCADE: the rows left when the departments
\* in `gone` are deleted.
CascadeEmployees(gone) ==
    [e \in {x \in DOMAIN employees : employees[x].department \notin gone}
        |-> employees[e]]

\* DepartmentViewSet.destroy (ModelViewSet): get_object(), instance.delete()
DepartmentDestroy(p, U) ==
    /\ UNCHANGED users
    /\ req[p].pc = "idle"
    /\ \E user \in U, cpk \in CompanyPks, pk \in DeptPks :
        IF NestedPermission(user, cpk) # 0
        THEN /\ req' = [req EXCEPT ![p] = By(user,
                           Denied("destroy_department", NestedPermission(user, cpk)))]
             /\ UNCHANGED <<departments, employees>>
        ELSE IF pk \notin DepartmentQueryset(cpk)
        THEN /\ req' = [req EXCEPT ![p] = By(user,
                           Done("destroy_department", pk, Absent, 404, {"NotFound"}))]
             /\ UNCHANGED <<departments, employees>>
        ELSE /\ departments' = [d \in DOMAIN departments \ {pk} |-> departments[d]]
             /\ employees' = CascadeEmployees({pk})
             /\ req' = [req EXCEPT ![p] = By(user,
                           Done("destroy_department", pk, Absent, 204, {}))]
    /\ UNCHANGED <<companies, nextCompanyId, nextDeptId, nextId, today>>

\* -------------------------------------------------------------- companies
\* The company routes' permissions without the role check.
CompanyPermission_NoRole(user, safe) ==
    IF ~IsAuthenticated(user) THEN 401 ELSE 0

\* APIView.check_permissions over [IsAuthenticated, IsMangerOrReadOnly]: 0 when
\* both grant, else the status of the first that denies.
CompanyPermission(user, safe) ==
    IF ~IsAuthenticated(user) THEN 401
    ELSE IF ~safe /\ role(user) # "manager" THEN 403
    ELSE 0

\* IsMangerOrReadOnly.has_object_permission
CompanyObjectPermission(user, pk, safe) ==
    safe \/ companies[pk].manager = user

\* CompanyViewSet.get_queryset
CompanyQueryset(user) ==
    IF is_superuser(user) THEN DOMAIN companies
    ELSE {c \in DOMAIN companies : companies[c].manager = user}

\* The unique index on Company.name, and the UniqueValidator the serializer
\* derives from it: TRUE when a row other than pk has the name.
CompanyNameTaken(pk, name) ==
    \E c \in DOMAIN companies : c # pk /\ companies[c].name = name

\* CompanyCreateSerializer.is_valid(): the field name, then validate(), which
\* looks the name up among the companies of the requesting user.
CompanyErrors(user, pk, body, partial) ==
    LET fieldErrs ==
            (IF ~partial /\ body.name = Absent THEN {"required"} ELSE {})
            \cup (IF body.name # Absent /\ CompanyNameTaken(pk, body.name)
                  THEN {"name"} ELSE {})
    IN  IF fieldErrs # {} THEN fieldErrs
        ELSE IF \E c \in DOMAIN companies :
                    companies[c].manager = user /\ companies[c].name = body.name
        THEN {"non_field"}
        ELSE {}

\* Company.save() without the unique index on name.
CompanySaveOutcome_NoIndex(pk, row) == "ok"

\* Company.save(): the INSERT or UPDATE under the unique index on name.
CompanySaveOutcome(pk, row) ==
    IF CompanyNameTaken(pk, row.name) THEN "IntegrityError" ELSE "ok"

InFlightCompanies ==
    Cardinality({q \in Procs : req[q].pc = "validated"
                                /\ req[q].op = "create_company"})

\* The validated data of a creation, had validate() not put the requesting
\* user in as manager: the manager is a fixed user.
CompanyCreateData_FixedManager(user, name) ==
    [manager |-> "m1", name |-> name]

\* CompanyCreateSerializer.validate sets attrs["manager"] to the requesting
\* user; create() hands the validated data to Company.objects.create.
CompanyCreateData(user, name) == [manager |-> user, name |-> name]

\* CompanyCreateSerializer.update: the name of the validated data, when
\* there is one, is set on the loaded instance; nothing else is.
CompanyUpdateData(instance, name) ==
    IF name = Absent THEN instance ELSE [instance EXCEPT !.name = name]

\* CompanyViewSet.create up to serializer.is_valid()
CompanyCreateBegin(p, U) ==
    /\ UNCHANGED users
    /\ req[p].pc = "idle"
    /\ nextCompanyId + InFlightCompanies <= MaxCompanies
    /\ \E user \in U :
        IF CompanyPermission(user, FALSE) # 0
        THEN req' = [req EXCEPT ![p] = By(user,
                        Denied("create_company", CompanyPermission(user, FALSE)))]
        ELSE \E name \in CompanyNames \cup {Absent} :
            LET errs == CompanyErrors(user, 0, [name |-> name], FALSE)
            IN  req' = [req EXCEPT ![p] = By(user,
                    IF errs # {}
                    THEN Done("create_company", 0, name, 400, errs)
                    ELSE Validated("create_company", 0, name,
                                   CompanyCreateData(user, name)))]
    /\ UNCHANGED <<companies, departments, nextCompanyId, nextDeptId,
                 employees, nextId, today>>

\* CompanyCreateSerializer.create, from serializer.save()
CompanyCreateSave(p) ==
    /\ UNCHANGED users
    /\ req[p].pc = "validated"
    /\ req[p].op = "create_company"
    /\ LET row == req[p].inst
           out == CompanySaveOutcome(nextCompanyId, row)
       IN  IF out = "ok"
           THEN /\ companies' = Put(companies, nextCompanyId, row)
                /\ nextCompanyId' = nextCompanyId + 1
                /\ req' = [req EXCEPT ![p] = By(req[p].user,
                       Done("create_company", nextCompanyId, req[p].want, 201, {}))]
           ELSE /\ UNCHANGED <<companies, nextCompanyId>>
                /\ req' = [req EXCEPT ![p] = By(req[p].user,
                       Done("create_company", 0, req[p].want, 500, {out}))]
    /\ UNCHANGED <<departments, nextDeptId, employees, nextId, today>>

\* CompanyViewSet.update / partial_update up to serializer.is_valid():
\* check_permissions, get_object() with check_object_permissions, is_valid().
CompanyUpdateBegin(p, U) ==
    /\ UNCHANGED users
    /\ req[p].pc = "idle"
    /\ \E user \in U, pk \in CompanyPks :
        IF CompanyPermission(user, FALSE) # 0
        THEN req' = [req EXCEPT ![p] = By(user,
                        Denied("update_company", CompanyPermission(user, FALSE)))]
        ELSE IF pk \notin CompanyQueryset(user)
        THEN req' = [req EXCEPT ![p] = By(user,
                        Done("update_company", pk, Absent, 404, {"NotFound"}))]
        ELSE IF ~CompanyObjectPermission(user, pk, FALSE)
        THEN req' = [req EXCEPT ![p] = By(user, Denied("update_company", 403))]
        ELSE \E partial \in BOOLEAN, name \in CompanyNames \cup {Absent} :
            LET errs == CompanyErrors(user, pk, [name |-> name], partial)
            IN  req' = [req EXCEPT ![p] = By(user,
                    IF errs # {}
                    THEN Done("update_company", pk, name, 400, errs)
                    ELSE Validated("update_company", pk, name,
                            CompanyUpdateData(companies[pk], name)))]
    /\ UNCHANGED <<companies, departments, nextCompanyId, nextDeptId,
                 employees, nextId, today>>

\* CompanyCreateSerializer.update, from serializer.save(): the name is set on
\* the loaded instance and the whole row is written.
CompanyUpdateSave(p) ==
    /\ UNCHANGED users
    /\ req[p].pc = "validated"
    /\ req[p].op = "update_company"
    /\ LET pk == req[p].pk
           row == req[p].inst
           out == CompanySaveOutcome(pk, row)
       IN  IF out = "ok"
           THEN /\ companies' = Put(companies, pk, row)
                /\ req' = [req EXCEPT ![p] = By(req[p].user,
                              Done("update_company", pk, req[p].want, 200, {}))]
           ELSE /\ UNCHANGED companies
                /\ req' = [req EXCEPT ![p] = By(req[p].user,
                              Done("update_company", pk, req[p].want, 500, {out}))]
    /\ UNCHANGED <<departments, nextCompanyId, nextDeptId, employees, nextId, today>>

\* CompanyViewSet.destroy (ModelViewSet): get_object(), instance.delete(); the
\* departments of the company and their employees go with it.
CompanyDestroy(p, U) ==
    /\ UNCHANGED users
    /\ req[p].pc = "idle"
    /\ \E user \in U, pk \in CompanyPks :
        IF CompanyPermission(user, FALSE) # 0
        THEN /\ req' = [req EXCEPT ![p] = By(user,
                        Denied("destroy_company", CompanyPermission(user, FALSE)))]
             /\ UNCHANGED <<companies, departments, employees>>
        ELSE IF pk \notin CompanyQueryset(user)
        THEN /\ req' = [req EXCEPT ![p] = By(user,
                        Done("destroy_company", pk, Absent, 404, {"NotFound"}))]
             /\ UNCHANGED <<companies, departments, employees>>
        ELSE IF ~CompanyObjectPermission(user, pk, FALSE)
        THEN /\ req' = [req EXCEPT ![p] = By(user, Denied("destroy_company", 403))]
             /\ UNCHANGED <<companies, departments, employees>>
        ELSE /\ companies' = [c \in DOMAIN companies \ {pk} |-> companies[c]]
             /\ departments' = [d \in DOMAIN departments \ DepartmentQueryset(pk)
                                  |-> departments[d]]
             /\ employees' = CascadeEmployees(DepartmentQueryset(pk))
             /\ req' = [req EXCEPT ![p] = By(user,
                           Done("destroy_company", pk, Absent, 204, {}))]
    /\ UNCHANGED <<nextCompanyId, nextDeptId, nextId, today>>

\* ---------------------------------------------------------- outcome kinds
\* The kind of answer of a company detail route (retrieve with safe, update
\* and destroy without) to `user` addressing company pk: check_permissions,
\* then get_object() with check_object_permissions.  401, 403 or 404 for a
\* refusal, 200 when the handler goes on with the company.
CompanyDetailKind(user, pk, safe) ==
    IF CompanyPermission(user, safe) # 0 THEN CompanyPermission(user, safe)
    ELSE IF pk \notin CompanyQueryset(user) THEN 404
    ELSE IF ~CompanyObjectPermission(user, pk, safe) THEN 403
    ELSE 200

\* The same for a department detail route under /companies/<cpk>/.
DepartmentDetailKind(user, cpk, pk) ==
    IF NestedPermission(user, cpk) # 0 THEN NestedPermission(user, cpk)
    ELSE IF pk \notin DepartmentQueryset(cpk) THEN 404
    ELSE 200

\* The same for an employee detail route under
\* /companies/<cpk>/departments/<dpk>/: dpk plays no part.
EmployeeDetailKind(user, cpk, dpk, pk) ==
    IF NestedPermission(user, cpk) # 0 THEN NestedPermission(user, cpk)
    ELSE IF pk \notin EmployeeQueryset(cpk) THEN 404
    ELSE 200

\* ------------------------------------------------------------------ reads
\* The response of a read: the ids of the companies shown and, when the
\* listing carries them, the statistics.
\* Department.get_employees_count with the filter of the relation left out.
Department_get_employees_count_AllRows(d) == Cardinality(DOMAIN employees)

\* Department.get_employees_count: self.employees.count()
Department_get_employees_count(d) ==
    Cardinality({e \in DOMAIN employees : employees[e].department = d})

\* sum(department.get_employees_count() for department in depts)
RECURSIVE SumOfEmployeeCounts(_)
SumOfEmployeeCounts(depts) ==
    IF depts = {} THEN 0
    ELSE LET d == CHOOSE x \in depts : TRUE
         IN  Department_get_employees_count(d)
             + SumOfEmployeeCounts(depts \ {d})

\* Company.get_employees_count: the sum over self.departments.all()
Company_get_employees_count(c) == SumOfEmployeeCounts(DepartmentQueryset(c))

\* Company.get_departments_count: self.departments.count()
Company_get_departments_count(c) == Cardinality(DepartmentQueryset(c))

\* The employees_count and departments_count fields of both company
\* serializers (SerializerMethodFields calling the model's methods).
CompanyCounts(c) ==
    [employees_count |-> Company_get_employees_count(c),
     departments_count |-> Company_get_departments_count(c)]

Shown(rec, ids, statistics) ==
    [ids |-> ids, statistics |-> statistics,
     counts |-> [c \in ids |-> CompanyCounts(c)]] @@ rec

\* The rows of Company LEFT JOIN Department LEFT JOIN Employee, which the
\* aggregate of CompanyViewSet.list counts: <<company, department, employee>>
\* with Null where the join finds no row.
JoinRows ==
    LET depts(c) == DepartmentQueryset(c)
        emps(d) == {e \in DOMAIN employees : employees[e].department = d}
    IN  {<<c, Null, Null>> : c \in {x \in DOMAIN companies : depts(x) = {}}}
        \cup {<<departments[d].company, d, Null>> :
                 d \in {x \in DOMAIN departments : emps(x) = {}}}
        \cup {<<departments[employees[e].department].company,
                employees[e].department, e>> : e \in DOMAIN employees}

\* Company.objects.aggregate(Count("id"), Count("departments"),
\* Count("departments__employees")): each Count is over the joined rows and
\* counts those in which its column is not NULL.
Statistics ==
    [total_companies |-> Cardinality(JoinRows),
     total_departments |-> Cardinality({r \in JoinRows : r[2] # Null}),
     total_employees |-> Cardinality({r \in JoinRows : r[3] # Null})]

\* ReadOnlyCompanySerializer nests the departments and their employees, and
\* ReadOnlyEmployeeSerializer.get_company hands the Company object itself to
\* the renderer: TRUE when the companies `ids` can be rendered, FALSE when
\* the JSON encoder raises TypeError.
Renders(ids) ==
    \A e \in DOMAIN employees :
        departments[employees[e].department].company \notin ids

\* CompanyViewSet.list
CompanyList(p, U) ==
    /\ UNCHANGED users
    /\ req[p].pc = "idle"
    /\ \E user \in U :
        req' = [req EXCEPT ![p] = By(user,
            IF CompanyPermission(user, TRUE) # 0
            THEN Denied("list_companies", CompanyPermission(user, TRUE))
            ELSE IF is_superuser(user)
            THEN Shown(Done("list_companies", 0, Absent, 200, {}),
                       CompanyQueryset(user), Statistics)
            ELSE IF ~Renders(CompanyQueryset(user))
            THEN Done("list_companies", 0, Absent, 500, {"TypeError"})
            ELSE Shown(Done("list_companies", 0, Absent, 200, {}),
                       CompanyQueryset(user), Absent))]
    /\ UNCHANGED <<companies, departments, nextCompanyId, nextDeptId,
                 employees, nextId, today>>

\* CompanyViewSet.retrieve (ModelViewSet): get_object(), the serializer
\* get_serializer_class picks for the user.
CompanyRetrieve(p, U) ==
    /\ UNCHANGED users
    /\ req[p].pc = "idle"
    /\ \E user \in U, pk \in CompanyPks :
        req' = [req EXCEPT ![p] = By(user,
            IF CompanyPermission(user, TRUE) # 0
            THEN Denied("retrieve_company", CompanyPermission(user, TRUE))
            ELSE IF pk \notin CompanyQueryset(user)
            THEN Done("retrieve_company", pk, Absent, 404, {"NotFound"})
            ELSE IF ~is_superuser(user) /\ ~Renders({pk})
            THEN Done("retrieve_company", pk, Absent, 500, {"TypeError"})
            ELSE Shown(Done("retrieve_company", pk, Absent, 200, {}),
                       {pk}, Absent))]
    /\ UNCHANGED <<companies, departments, nextCompanyId, nextDeptId,
                 employees, nextId, today>>

\* ------------------------------------------------------------------ users
\* UserRole.choices, and the empty string of a role left blank.
UserRole == {"admin", "manager", "employee"}
Blank == ""

\* Usernames of the users created and saved while the system runs.
NewUsers == {"u1", "u2"}

\* CustomUser.save with the test of the role left out: the role is derived
\* from is_superuser at every save.
CustomUser_save_Always(self) ==
    [self EXCEPT !.role = IF self.is_superuser THEN "admin" ELSE "manager"]

\* CustomUser.save: a blank role becomes admin for a superuser and manager
\* otherwise; the row written is the instance.
CustomUser_save(self) ==
    IF self.role = Blank
    THEN [self EXCEPT !.role = IF self.is_superuser THEN "admin" ELSE "manager"]
    ELSE self

\* The record of a save: the user saved and the instance handed to save().
UserSaved(op, name, given) ==
    [username |-> name, given |-> given] @@ Done(op, 0, Absent, 200, {})

\* User.objects.create_user / create_superuser, with or without role=...
UserCreate(p, N) ==
    /\ req[p].pc = "idle"
    /\ \E name \in N \ DOMAIN users, r \in UserRole \cup {Blank},
          su \in BOOLEAN :
        LET self == [role |-> r, is_superuser |-> su]
        IN  /\ users' = users @@ (name :> CustomUser_save(self))
            /\ req' = [req EXCEPT ![p] = UserSaved("create_user", name, self)]
    /\ UNCHANGED <<companies, departments, employees, nextCompanyId,
                 nextDeptId, nextId, today>>

\* POST on the signup route: the body carries username, email and passwords,
\* the user is saved with no role and without superuser status.
UserSignup(p, N) ==
    /\ req[p].pc = "idle"
    /\ \E name \in N \ DOMAIN users :
        LET self == [role |-> Blank, is_superuser |-> FALSE]
        IN  /\ users' = users @@ (name :> CustomUser_save(self))
            /\ req' = [req EXCEPT ![p] = UserSaved("signup", name, self)]
    /\ UNCHANGED <<companies, departments, employees, nextCompanyId,
                 nextDeptId, nextId, today>>

\* CustomUserCreationForm.save: the role of the form, blank when none was
\* chosen; role admin makes the user a superuser.
UserAdminCreate(p, N) ==
    /\ req[p].pc = "idle"
    /\ \E name \in N \ DOMAIN users, r \in UserRole \cup {Blank} :
        LET self == [role |-> r, is_superuser |-> (r = "admin")]
        IN  /\ users' = users @@ (name :> CustomUser_save(self))
            /\ req' = [req EXCEPT ![p] = UserSaved("admin_create", name, self)]
    /\ UNCHANGED <<companies, departments, employees, nextCompanyId,
                 nextDeptId, nextId, today>>

\* A later save of a stored user (the change form of the admin site, or any
\* user.save()): the row is loaded, role and is_superuser are assigned or
\* left as loaded, and the instance is saved.
UserSave(p, N) ==
    /\ req[p].pc = "idle"
    /\ \E name \in N \cap DOMAIN users,
          r \in UserRole \cup {Blank}, su \in BOOLEAN :
        LET self == [role |-> r, is_superuser |-> su]
        IN  /\ users' = [users EXCEPT ![name] = CustomUser_save(self)]
            /\ req' = [req EXCEPT ![p] = UserSaved("save_user", name, self)]
    /\ UNCHANGED <<companies, departments, employees, nextCompanyId,
                 nextDeptId, nextId, today>>

\* The response is sent; the worker is free for the next request.
Return(p) ==
    /\ UNCHANGED users
    /\ req[p].pc = "done"
    /\ req' = [req EXCEPT ![p] = Idle]
    /\ UNCHANGED <<companies, departments, nextCompanyId, nextDeptId,
                 employees, nextId, today>>

\* The server's date moves on (timezone.now().date()).
Tick ==
    /\ UNCHANGED users
    /\ today < MaxDay
    /\ today' = today + 1
    /\ UNCHANGED <<companies, departments, nextCompanyId, nextDeptId,
                 employees, nextId, req>>

\* A database holding two companies of two managers, the first with two
\* departments, the second with one, and no employee yet.
Init ==
    /\ companies = (1 :> [manager |-> "m1", name |-> "x"])
                   @@ (2 :> [manager |-> "m2", name |-> "y"])
    /\ departments = (1 :> [company |-> 1, name |-> "a"])
                     @@ (2 :> [company |-> 1, name |-> "b"])
                     @@ (3 :> [company |-> 2, name |-> "a"])
    /\ employees = << >>
    /\ nextCompanyId = 3
    /\ nextDeptId = 4
    /\ nextId = 1
    /\ today = 1
    /\ req = [p \in Procs |-> Idle]
    /\ users = [u \in Accounts |->
                   [role |-> role(u), is_superuser |-> is_superuser(u)]]

\* One step of worker p on the employee routes; the requests are those of the
\* users U, their bodies and paths draw emails from E and departments from D.
Step(p, U, E, D) ==
    \/ EmployeeCreateBegin(p, U, E, D)
    \/ EmployeeCreateSave(p)
    \/ EmployeeUpdateBegin(p, U, E, D)
    \/ EmployeeUpdateStatusBegin(p, U)
    \/ EmployeeUpdateSave(p)
    \/ EmployeeDestroy(p, U, D)
    \/ Return(p)

\* One worker: requests are handled one after the other.
SeqNext ==
    \/ Step(1, Users, Emails, DeptIds)
    \/ Tick

SeqSpec == Init /\ [][SeqNext]_vars

\* Two workers handling requests at the same time; to keep the interleavings
\* countable their request bodies name one email and one department.
Next ==
    \/ \E p \in Procs : Step(p, Users, RaceEmails, RaceDepts)
    \/ Tick

Spec == Init /\ [][Next]_vars

\* One step of worker p on the department routes; the requests are those of
\* the users U, their bodies draw names from N.
DepartmentStep(p, U, N) ==
    \/ DepartmentCreateBegin(p, U, N)
    \/ DepartmentCreateSave(p)
    \/ DepartmentUpdateBegin(p, U, N)
    \/ DepartmentUpdateSave(p)
    \/ DepartmentDestroy(p, U)
    \/ Return(p)

\* Two workers on the department routes, taking the requests of one manager.
DepartmentNext == \E p \in Procs : DepartmentStep(p, {"m1"}, DeptNames)

DepartmentSpec == Init /\ [][DepartmentNext]_vars

\* One step of worker p on the writing company routes.
CompanyStep(p, U) ==
    \/ CompanyCreateBegin(p, U)
    \/ CompanyCreateSave(p)
    \/ CompanyUpdateBegin(p, U)
    \/ CompanyUpdateSave(p)
    \/ CompanyDestroy(p, U)
    \/ Return(p)

\* Two workers on the writing company routes, taking the requests of the two
\* managers.
CompanyNext == \E p \in Procs : CompanyStep(p, Users)

CompanySpec == Init /\ [][CompanyNext]_vars

\* The clients of TenantSpec: every account but the second manager, whose
\* company is there to be reached for, and a client without credentials.
Clients == (Accounts \ {"m2"}) \cup {Anonymous}

\* One worker taking the requests of the clients on all routes, one after the
\* other.
TenantNext ==
    \/ Step(1, Clients, RaceEmails, DeptIds)
    \/ DepartmentStep(1, Clients, DeptNames)
    \/ CompanyStep(1, Clients)
    \/ CompanyList(1, Clients)
    \/ CompanyRetrieve(1, Clients)

TenantSpec == Init /\ [][TenantNext]_vars

\* Two workers on the resources of manager m1: the first takes the requests on
\* the employees of the two departments of company 1, the second the deletes
\* of departments and companies, which fall between the steps of the first.
CascadeNext ==
    \/ Step(1, {"m1"}, Emails, {1, 2})
    \/ DepartmentDestroy(2, {"m1"})
    \/ CompanyDestroy(2, {"m1"})
    \/ Return(2)

CascadeSpec == Init /\ [][CascadeNext]_vars

\* One worker serving a manager's creations, transfers and deletions and the
\* company reads of the manager and of a superuser.
CountsNext ==
    \/ Step(1, {"m1"}, Emails, {1, 2})
    \/ DepartmentDestroy(1, {"m1"})
    \/ CompanyDestroy(1, {"m1"})
    \/ CompanyList(1, {"m1", "root"})
    \/ CompanyRetrieve(1, {"m1", "root"})

CountsSpec == Init /\ [][CountsNext]_vars

\* One worker creating users by every route and saving them again.
UserNext ==
    \/ UserCreate(1, NewUsers)
    \/ UserSignup(1, NewUsers)
    \/ UserAdminCreate(1, NewUsers)
    \/ UserSave(1, NewUsers)
    \/ Return(1)

UserSpec == Init /\ [][UserNext]_vars

\* A database in which one manager manages both companies.
MultiInit ==
    /\ companies = (1 :> [manager |-> "m1", name |-> "x"])
                   @@ (2 :> [manager |-> "m1", name |-> "y"])
    /\ departments = (1 :> [company |-> 1, name |-> "a"])
                     @@ (2 :> [company |-> 1, name |-> "b"])
                     @@ (3 :> [company |-> 2, name |-> "a"])
    /\ employees = << >>
    /\ nextCompanyId = 3
    /\ nextDeptId = 4
    /\ nextId = 1
    /\ today = 1
    /\ req = [p \in Procs |-> Idle]
    /\ users = [u \in Accounts |->
                   [role |-> role(u), is_superuser |-> is_superuser(u)]]

\* One worker serving the creations of departments and employees by the
\* manager of both companies and by the other manager.
MultiNext ==
    \/ DepartmentCreateBegin(1, Users, DeptNames)
    \/ DepartmentCreateSave(1)
    \/ EmployeeCreateBegin(1, Users, Emails, DeptIds)
    \/ EmployeeCreateSave(1)
    \/ Return(1)

MultiSpec == MultiInit /\ [][MultiNext]_vars

\* ------------------------------------------------------------ properties
UpdateOps == {"update", "update_status"}

\* The transition table of the hiring pipeline, as the specification gives it.
PipelineTable(cur) ==
    CASE cur = APPLICATION_RECEIVED -> {INTERVIEW_SCHEDULED, NOT_ACCEPTED}
      [] cur = INTERVIEW_SCHEDULED -> {HIRED, NOT_ACCEPTED}
      [] cur = HIRED -> {}
      [] cur = NOT_ACCEPTED -> {}

\* Worker p takes up a request in this step and ends validation with r.
Begins(p) == req[p].pc = "idle" /\ req'[p].pc # "idle"

\* Worker p's serializer.save() runs in this step.
Saves(p) == req[p].pc = "validated" /\ req'[p].pc = "done"

\* C1: in every persisted state, under any interleaving of create, update and
\* update_status requests, an employee's status is hired exactly when its
\* hired_on is set: status never moves to or from hired without hired_on
\* moving from or to null in the same write.
C1_HiredIffHiredOn ==
    \A e \in DOMAIN employees :
        (employees[e].status = HIRED) <=> (employees[e].hired_on # Null)

\* An employee was moved to hired by an update request and carries a hire date.
C1_Witness ==
    \E p \in Procs :
        /\ req[p].pc = "done" /\ req[p].op \in UpdateOps
        /\ req[p].code = 200 /\ req[p].want = HIRED
        /\ req[p].pk \in DOMAIN employees
        /\ employees[req[p].pk].status = HIRED
        /\ employees[req[p].pk].hired_on # Null

C3_TerminalStaysTerminal ==
    [][\A e \in DOMAIN employees \cap DOMAIN employees' :
          employees[e].status \in {HIRED, NOT_ACCEPTED}
              => employees'[e].status = employees[e].status
      ]_vars

\* C4: re-submitting an employee's current status, with nothing else changed,
\* succeeds and leaves the persisted status and hired_on as they were.
C4_ResubmitIsNoOp ==
    [][\A p \in Procs :
        ( /\ Saves(p)
          /\ req[p].op \in UpdateOps
          /\ req[p].pk \in DOMAIN employees
          /\ req[p].want = employees[req[p].pk].status
          /\ req[p].inst.email = employees[req[p].pk].email
          /\ req[p].inst.department = employees[req[p].pk].department )
        => /\ req'[p].code = 200
           /\ employees'[req[p].pk].status = employees[req[p].pk].status
           /\ employees'[req[p].pk].hired_on = employees[req[p].pk].hired_on
      ]_vars

\* C5: an accepted request that moves an employee from interview scheduled to
\* hired stores the server's date of that moment as hired_on, and no write
\* stores a hired_on other than null or the server's date: nothing the caller
\* sends as hired_on reaches the row.
C5_HiredOnIsServerDate ==
    [][/\ \A p \in Procs :
            ( /\ Saves(p)
              /\ req[p].op \in UpdateOps
              /\ req[p].want = HIRED
              /\ req[p].pk \in DOMAIN employees
              /\ employees[req[p].pk].status = INTERVIEW_SCHEDULED
              /\ req'[p].code = 200 )
            => employees'[req[p].pk].hired_on = today
       /\ \A e \in DOMAIN employees' :
            \/ e \in DOMAIN employees
               /\ employees'[e].hired_on = employees[e].hired_on
            \/ employees'[e].hired_on \in {Null, today}
      ]_vars

\* An employee was hired on the second day and carries that date.
C5_Witness ==
    \E p \in Procs :
        /\ req[p].pc = "done" /\ req[p].op \in UpdateOps
        /\ req[p].code = 200 /\ req[p].want = HIRED
        /\ req[p].pk \in DOMAIN employees
        /\ today = MaxDay
        /\ employees[req[p].pk].hired_on = today

\* C6: a creation request without a status that is not refused for another
\* reason (403, 400) is answered 201 and stores the employee with status
\* application received.
C6_CreateDefaultsStatus ==
    \A p \in Procs :
        ( /\ req[p].pc = "done" /\ req[p].op = "create"
          /\ req[p].want = Absent
          /\ req[p].code \notin {400, 403} )
        => /\ req[p].code = 201
           /\ req[p].pk \in DOMAIN employees
           /\ employees[req[p].pk].status = APPLICATION_RECEIVED

\* C7: a created employee has hired_on = null, and a creation request asking
\* for status hired stores nothing and is answered as a validation failure
\* (400) or a denial (403), never as a server error.
C7_CreateHiredIsRejected ==
    /\ [][\A e \in DOMAIN employees' \ DOMAIN employees :
             (\E p \in Procs : Saves(p) /\ req[p].op = "create")
                 => employees'[e].hired_on = Null]_vars
    /\ [](\A p \in Procs :
            ( /\ req[p].pc = "done" /\ req[p].op = "create"
              /\ req[p].want = HIRED )
            => req[p].code \in {400, 403})

\* C8: an update is accepted only with a department of the employee's own
\* company, and the company derived from an employee never changes while the
\* employee exists.
C8_CompanyIsConstant ==
    [][/\ \A p \in Procs :
            ( /\ Begins(p)
              /\ req'[p].pc = "validated"
              /\ req'[p].op \in UpdateOps )
            => Employee_company(req'[p].inst)
                   = Employee_company(employees[req'[p].pk])
       /\ \A e \in DOMAIN employees \cap DOMAIN employees' :
            Employee_company(employees'[e]) = Employee_company(employees[e])
      ]_vars

\* A transfer was refused with an error on department while the employee
\* stays in its company; another employee was moved inside its company.
C8_Witness ==
    \E p \in Procs :
        /\ req[p].pc = "done" /\ req[p].op = "update"
        /\ req[p].code = 400 /\ req[p].err = {"department"}
        /\ req[p].pk \in DOMAIN employees
        /\ \E e \in DOMAIN employees : employees[e].department = 2

\* C9: a creation whose email another creation stored between its uniqueness
\* check and its write stores nothing and is answered 400 with DuplicateEmail.
C9_RaceIsDuplicateEmail ==
    [][\A p \in Procs :
        ( /\ Saves(p)
          /\ req[p].op = "create"
          /\ EmailTaken(employees, 0, req[p].inst.email) )
        => /\ employees' = employees
           /\ req'[p].code = 400
           /\ "email" \in req'[p].err
      ]_vars

\* C10: no two employees have the same stored email, and a create or update,
\* handled with no other request in flight, whose resulting stored email is
\* another employee's is answered 400 with DuplicateEmail and changes nothing.
C10_DuplicateEmailRefused ==
    /\ [](\A e, f \in DOMAIN employees :
            e # f => employees[e].email # employees[f].email)
    /\ [][\A p \in Procs :
            ( /\ Saves(p)
              /\ req[p].op \in {"create", "update"}
              /\ EmailTaken(employees,
                            IF req[p].op = "create" THEN 0 ELSE req[p].pk,
                            req[p].inst.email) )
            => /\ employees' = employees
               /\ req'[p].code = 400
               /\ "email" \in req'[p].err
         ]_vars

\* C11: in every reachable state no two departments of the same company have
\* the same name, after any sequence of department create and rename
\* requests, two concurrent creates with the same company and name included.
C11_DepartmentNameUniqueInCompany ==
    \A d1, d2 \in DOMAIN departments :
        (/\ d1 # d2
         /\ departments[d1].company = departments[d2].company)
            => departments[d1].name # departments[d2].name

\* C12: in every reachable state no two companies have the same name, across
\* all managers: a create or rename whose name is that of another manager's
\* company never succeeds, also when the two requests run concurrently.
C12_CompanyNameUnique ==
    \A c1, c2 \in DOMAIN companies :
        c1 # c2 => companies[c1].name # companies[c2].name

\* A request that lost the race for a name to a company of another manager:
\* it passed validation and was refused by the unique index.
C12_Witness ==
    \E p \in Procs :
        /\ req[p].pc = "done"
        /\ req[p].op \in {"create_company", "update_company"}
        /\ req[p].err = {"IntegrityError"}
        /\ \E c \in DOMAIN companies :
              /\ companies[c].name = req[p].want
              /\ companies[c].manager # req[p].user

\* The companies managed by `user` with their departments and employees, in
\* the tables cs, ds and es.
OwnedBy(user, cs, ds, es) ==
    LET cset == {c \in DOMAIN cs : cs[c].manager = user}
        dset == {d \in DOMAIN ds : ds[d].company \in cset}
        eset == {e \in DOMAIN es : es[e].department \in dset}
    IN  <<[c \in cset |-> cs[c]], [d \in dset |-> ds[d]], [e \in eset |-> es[e]]>>

CompanyReads == {"list_companies", "retrieve_company"}
CompanyDetailOps == {"retrieve_company", "update_company", "destroy_company"}

\* Worker p handles a step of a request in this step.
Handles(p) == req'[p] # req[p] /\ req'[p].pc # "idle"

\* C13: tenant isolation. No step of a request of a user A whose role is
\* manager changes a company, department or employee owned by another manager
\* B or adds one to B's companies; a read by A shows no company of B; and a
\* company detail request of A on a company of B ends Forbidden or NotFound.
C13_TenantIsolation ==
    [][\A p \in Procs : \A A, B \in Accounts :
        (/\ Handles(p)
         /\ req'[p].user = A
         /\ A # B
         /\ role(A) = "manager"
         /\ role(B) = "manager")
        => /\ OwnedBy(B, companies', departments', employees')
                = OwnedBy(B, companies, departments, employees)
           /\ (/\ req'[p].op \in CompanyReads
               /\ req'[p].code = 200)
              => \A c \in req'[p].ids : companies[c].manager # B
           /\ (/\ req[p].pc = "idle"
               /\ req'[p].op \in CompanyDetailOps
               /\ req'[p].pk \in DOMAIN companies
               /\ companies[req'[p].pk].manager = B)
              => (req'[p].pc = "done" /\ req'[p].code \in {403, 404})]_vars

\* The ids whose row is added, removed or changed between the tables t and u.
Touched(t, u) ==
    {i \in DOMAIN t \cup DOMAIN u :
        i \notin DOMAIN t \/ i \notin DOMAIN u \/ t[i] # u[i]}

\* The row of id i before the step, or the row written when there was none.
Before(t, u, i) == IF i \in DOMAIN t THEN t[i] ELSE u[i]

\* The manager of company c; no user when the company does not exist.
ManagerOf(c) == IF c \in DOMAIN companies THEN companies[c].manager ELSE ""

\* C14: a company is created only by a request of a user whose role is
\* manager, and renamed or deleted only by a request of a user whose role is
\* manager and who is its manager; a request of a user whose role is admin or
\* employee changes no company, and changes a department or an employee only
\* of a company that user manages.
C14_CompanyWritesByRoleManager ==
    [][\A p \in Procs :
        Handles(p) =>
          LET user == req'[p].user
          IN  /\ \A c \in Touched(companies, companies') :
                    /\ role(user) = "manager"
                    /\ Before(companies, companies', c).manager = user
              /\ role(user) \in {"admin", "employee"} =>
                    /\ \A d \in Touched(departments, departments') :
                          ManagerOf(Before(departments, departments', d).company)
                              = user
                    /\ \A e \in Touched(employees, employees') :
                          ManagerOf(departments[
                              Before(employees, employees', e).department].company)
                              = user]_vars

\* After a manager has created a company, the create request of a user whose
\* role is admin has been refused.
C14_Witness ==
    /\ nextCompanyId > 3
    /\ \E p \in Procs :
          /\ req[p].pc = "done"
          /\ req[p].op = "create_company"
          /\ role(req[p].user) = "admin"
          /\ req[p].code = 403

\* C15: a request without an authenticated user, on any route and with any
\* method, is denied as Unauthorized by the first permission check, before
\* the role, the ownership and the body are looked at, and changes no
\* persisted state.
C15_UnauthenticatedDenied ==
    [][\A p \in Procs :
        (Handles(p) /\ req'[p].user = Anonymous)
        => /\ req'[p].pc = "done"
           /\ req'[p].code = 401
           /\ req'[p].err = {"NotAuthenticated"}
           /\ UNCHANGED <<companies, departments, employees,
                          nextCompanyId, nextDeptId, nextId>>]_vars

\* An unauthenticated delete of an existing company, named by its path, has
\* been denied while the database holds an employee.
C15_Witness ==
    /\ DOMAIN employees # {}
    /\ \E p \in Procs :
          /\ req[p].pc = "done"
          /\ req[p].user = Anonymous
          /\ req[p].op = "destroy_company"
          /\ req[p].code = 401

\* The companies a read by `user` is to cover, going by the role.
VisibleByRole(user) ==
    IF role(user) = "admin" THEN DOMAIN companies
    ELSE {c \in DOMAIN companies : companies[c].manager = user}

\* C16: read visibility of companies is decided by the role. A listing by a
\* user whose role is admin shows all companies and one by a user whose role
\* is manager exactly the companies that user manages; a detail read finds
\* the company exactly when the listing would show it. This holds for every
\* account, whatever its superuser flag.
C16_ReadVisibilityByRole ==
    [][\A p \in Procs :
        (/\ Handles(p)
         /\ req'[p].op \in CompanyReads
         /\ role(req'[p].user) \in {"admin", "manager"})
        => /\ (req'[p].op = "list_companies" /\ req'[p].code = 200)
                => req'[p].ids = VisibleByRole(req'[p].user)
           /\ (req'[p].op = "retrieve_company" /\ req'[p].pk \in DOMAIN companies)
                => (req'[p].code = 404) = (req'[p].pk \notin VisibleByRole(req'[p].user))
       ]_vars

\* The counts of the three tables.
TrueTotals ==
    [total_companies |-> Cardinality(DOMAIN companies),
     total_departments |-> Cardinality(DOMAIN departments),
     total_employees |-> Cardinality(DOMAIN employees)]

\* C17: the statistics of an admin's company listing are the numbers of
\* companies, departments and employees over all tenants, each counted once;
\* a manager's listing carries no statistics and shows only that manager's
\* companies. Stated for the users that are admin (or not) by role and by
\* superuser flag alike.
C17_StatisticsAreTrueCounts ==
    [][\A p \in Procs :
        (/\ Handles(p)
         /\ req'[p].op = "list_companies"
         /\ req'[p].code = 200)
        => LET user == req'[p].user
           IN  /\ (role(user) = "admin" /\ is_superuser(user))
                    => req'[p].statistics = TrueTotals
               /\ (role(user) = "manager" /\ ~is_superuser(user))
                    => /\ req'[p].statistics = Absent
                       /\ req'[p].ids = VisibleByRole(user)]_vars

\* C18: a request under /companies/{c}/departments/{d}/employees by the
\* manager of c reaches only employees whose department is d; employees of
\* other departments of c are neither returned nor affected. Checked on the
\* delete route: the employee it removes is one of department d.
C18_EmployeeRoutesScopedToDepartment ==
    [][\A p \in Procs :
        (/\ Handles(p)
         /\ req'[p].op = "destroy"
         /\ req'[p].code = 204)
        => employees[req'[p].pk].department = req'[p].dpk]_vars

\* C19: on a request whose path carries a company c and a department d, d is
\* checked to belong to c before anything else is done: when d does not exist
\* or belongs to another company the request ends NotFound and has no
\* effect. Checked on the delete route of the employees.
C19_DepartmentOfPathBelongsToCompany ==
    [][\A p \in Procs :
        (/\ Handles(p)
         /\ req'[p].op = "destroy"
         /\ req'[p].code \in {204, 404}
         /\ req'[p].dpk \notin DepartmentQueryset(req'[p].cpk))
        => /\ req'[p].code = 404
           /\ UNCHANGED employees]_vars

\* Every employee's department exists and every department's company exists.
NoOrphans ==
    /\ \A e \in DOMAIN employees : employees[e].department \in DOMAIN departments
    /\ \A d \in DOMAIN departments : departments[d].company \in DOMAIN companies

\* The table t without the rows of the ids in `gone`.
Without(t, gone) == [i \in DOMAIN t \ gone |-> t[i]]

\* C20: deleting a company removes its departments and their employees, and
\* deleting a department removes its employees, in the same step, and removes
\* nothing else; in every reachable state every employee's department and
\* every department's company exist.
C20_CascadeDelete ==
    /\ []NoOrphans
    /\ [][\A p \in Procs :
            (Handles(p) /\ req'[p].pc = "done" /\ req'[p].code = 204)
            => LET pk == req'[p].pk
                   depts == IF req'[p].op = "destroy_company"
                            THEN DepartmentQueryset(pk)
                            ELSE IF req'[p].op = "destroy_department" THEN {pk}
                            ELSE {}
                   emps == IF req'[p].op = "destroy" THEN {pk}
                           ELSE {e \in DOMAIN employees :
                                    employees[e].department \in depts}
               IN  /\ companies' =
                        Without(companies,
                                IF req'[p].op = "destroy_company" THEN {pk} ELSE {})
                   /\ departments' = Without(departments, depts)
                   /\ employees' = Without(employees, emps)]_vars

\* A company has been deleted while an update of one of its employees was in
\* flight: the employee and its department are gone with the company.
C20_Witness ==
    \E p, q \in Procs :
        /\ req[p].pc = "validated"
        /\ req[p].op = "update"
        /\ req[p].pk \notin DOMAIN employees
        /\ req[p].inst.department \notin DOMAIN departments
        /\ req[q].pc = "done"
        /\ req[q].op = "destroy_company"
        /\ req[q].code = 204

\* C21: at every read and in every reachable state, a company's
\* employees_count is the number of employees whose department belongs to the
\* company, and its departments_count the number of its departments, whatever
\* creations, transfers and deletions came before.
TrueCounts(c) ==
    [employees_count |->
        Cardinality({e \in DOMAIN employees :
            /\ employees[e].department \in DOMAIN departments
            /\ departments[employees[e].department].company = c}),
     departments_count |->
        Cardinality({d \in DOMAIN departments : departments[d].company = c})]

C21_CountsFromPersistedState ==
    /\ [](\A c \in DOMAIN companies : CompanyCounts(c) = TrueCounts(c))
    /\ [][\A p \in Procs :
            (/\ Handles(p)
             /\ req'[p].op \in CompanyReads
             /\ req'[p].pc = "done"
             /\ req'[p].code = 200)
            => \A c \in req'[p].ids : req'[p].counts[c] = TrueCounts(c)]_vars

\* After at least two creations a listing shows a company with two
\* departments and two employees, one in each department.
C21_Witness ==
    /\ nextId > 2
    /\ \E c \in DOMAIN companies :
        /\ req[1].pc = "done" /\ req[1].op = "list_companies"
        /\ req[1].code = 200 /\ c \in req[1].ids
        /\ req[1].counts[c].employees_count = 2
        /\ req[1].counts[c].departments_count = 2
        /\ \E e1, e2 \in DOMAIN employees :
            employees[e1].department # employees[e2].department


\* C22: a user saved with a blank role gets role admin when it is a superuser
\* and manager otherwise (users who sign up included); a user saved with a
\* role keeps it, so a later save that does not assign the role leaves the
\* stored role as it is; no stored user has a blank role.
UserOps == {"create_user", "signup", "admin_create", "save_user"}

C22_RoleDefault ==
    /\ [](\A u \in DOMAIN users : users[u].role \in UserRole)
    /\ [][\A p \in Procs :
            (Handles(p) /\ req'[p].pc = "done" /\ req'[p].op \in UserOps)
            => LET u == req'[p].username
                   given == req'[p].given
               IN  /\ given.role = Blank
                      => users'[u].role = IF given.is_superuser
                                          THEN "admin" ELSE "manager"
                   /\ given.role # Blank => users'[u].role = given.role
                   /\ req'[p].op = "signup" => users'[u].role = "manager"
                   /\ (u \in DOMAIN users /\ given.role = users[u].role)
                      => users'[u].role = users[u].role]_vars

\* A user who signed up or was created as a plain user was later made a
\* superuser by a save that left the role alone, and is still a manager.
C22_Witness ==
    \E u \in NewUsers \cap DOMAIN users :
        /\ req[1].pc = "done" /\ req[1].op = "save_user"
        /\ req[1].username = u
        /\ req[1].given = [role |-> "manager", is_superuser |-> TRUE]
        /\ users[u] = [role |-> "manager", is_superuser |-> TRUE]


\* C23: days_employed is 0 for an employee without a hire date and otherwise
\* the number of days from hired_on to the server's date; as the date never
\* goes back, it is never negative for any employee the routes store.
C23_DaysEmployedNonNegative ==
    \A e \in DOMAIN employees :
        /\ get_days_employed(e) >= 0
        /\ employees[e].hired_on = Null => get_days_employed(e) = 0
        /\ employees[e].hired_on # Null
           => /\ employees[e].hired_on \in Days
              /\ employees[e].hired_on + get_days_employed(e) = today

\* An employee hired on an earlier day: days_employed is positive.
C23_Witness ==
    \E e \in DOMAIN employees :
        /\ employees[e].status = HIRED
        /\ employees[e].hired_on # Null
        /\ get_days_employed(e) >= 1


\* C24: every requested status change that is neither a self-transition nor
\* in the transition table is refused with an error that names both the
\* employee's current status and the requested one, also when the current
\* status is hired or not accepted, and leaves the employee's row as it was.
C24_InvalidTransitionNamesBoth ==
    [][\A p \in Procs :
        (/\ Handles(p)
         /\ req'[p].pc = "done"
         /\ req'[p].op \in UpdateOps
         /\ req'[p].want \in EmployeeStatus
         /\ req'[p].pk \in DOMAIN employees
         /\ req'[p].want # employees[req'[p].pk].status
         /\ req'[p].want \notin PipelineTable(employees[req'[p].pk].status))
        => /\ req'[p].code = 400
           /\ "status" \in req'[p].err
           /\ req'[p].names = {employees[req'[p].pk].status, req'[p].want}
           /\ employees' = employees]_vars


\* C25: a department created by POST /companies/c/departments belongs to
\* company c, and an employee created by POST
\* /companies/c/departments/d/employees belongs to a department of company
\* c, for every manager, one who manages several companies included, and
\* every request body.
C25_CreatedUnderPathCompany ==
    [][\A p \in Procs :
        (Handles(p) /\ req'[p].pc = "done" /\ req'[p].code = 201)
        => /\ req'[p].op = "create_department"
              => departments'[req'[p].pk].company = req'[p].cpk
           /\ req'[p].op = "create"
              => departments'[employees'[req'[p].pk].department].company
                 = req'[p].cpk]_vars


\* C26: when requests are handled one after the other, an employee whose
\* status is hired had status interview scheduled before: no write stores
\* hired for an employee that is new, or whose stored status is application
\* received or not accepted.
C26_HiredOnlyAfterInterview ==
    [][\A e \in DOMAIN employees' :
          employees'[e].status = HIRED
              => /\ e \in DOMAIN employees
                 /\ employees[e].status \in {INTERVIEW_SCHEDULED, HIRED}
      ]_vars

\* A PUT or PATCH moved an employee that was created with status application
\* received on to hired.
C26_Witness ==
    /\ req[1].pc = "done" /\ req[1].op = "update"
    /\ req[1].code = 200 /\ req[1].want = HIRED
    /\ req[1].pk \in DOMAIN employees
    /\ employees[req[1].pk].status = HIRED
    /\ employees[req[1].pk].hired_on # Null


\* C27: the manager of a company is the user whose request created it and
\* stays the same in every later state: no update of a company, by any user
\* and with any body, changes the manager.
C27_ManagerNeverChanges ==
    [][/\ \A c \in DOMAIN companies \cap DOMAIN companies' :
            companies'[c].manager = companies[c].manager
       /\ \A c \in DOMAIN companies' \ DOMAIN companies :
            \E p \in Procs :
                /\ Saves(p)
                /\ req'[p].op \in {"create_company", "update_company"}
                /\ req'[p].pk = c
                /\ req'[p].user = companies'[c].manager
       /\ \A p \in Procs :
            (Saves(p) /\ req'[p].op = "create_company" /\ req'[p].code = 201)
            => companies'[req'[p].pk].manager = req'[p].user
      ]_vars

\* The owner renamed a company: the name is new, the manager is the owner.
C27_Witness ==
    \E p \in Procs :
        /\ req[p].pc = "done" /\ req[p].op = "update_company"
        /\ req[p].code = 200
        /\ req[p].pk \in DOMAIN companies
        /\ companies[req[p].pk].name = req[p].want
        /\ companies[req[p].pk].manager = req[p].user
        /\ \/ req[p].pk = 1 /\ req[p].want = "y" /\ req[p].user = "m1"
           \/ req[p].pk = 2 /\ req[p].want = "x" /\ req[p].user = "m2"


\* The ids of each table that name no row, and those that name a row under a
\* company managed by someone other than A.
MissingCompanies == CompanyPks \ DOMAIN companies
ForeignCompanies(A) == {c \in DOMAIN companies : companies[c].manager # A}
MissingDepartments == DeptPks \ DOMAIN departments
ForeignDepartments(A) ==
    {d \in DOMAIN departments : departments[d].company \in ForeignCompanies(A)}
MissingEmployees == EmpIds \ DOMAIN employees
ForeignEmployees(A) ==
    {e \in DOMAIN employees : employees[e].department \in ForeignDepartments(A)}

\* For user A, a request that addresses an id naming no row and the same
\* request addressing an id of a row under someone else's company get the
\* same kind of answer, on every route with ids in its path.
Indistinguishable(A) ==
    /\ \A x \in MissingCompanies, y \in ForeignCompanies(A) :
        /\ \A safe \in BOOLEAN :
              CompanyDetailKind(A, x, safe) = CompanyDetailKind(A, y, safe)
        /\ NestedPermission(A, x) = NestedPermission(A, y)
    /\ \A c \in CompanyPks :
        /\ \A x \in MissingDepartments, y \in ForeignDepartments(A) :
            /\ DepartmentDetailKind(A, c, x) = DepartmentDetailKind(A, c, y)
            /\ \A e \in EmpIds :
                  EmployeeDetailKind(A, c, x, e) = EmployeeDetailKind(A, c, y, e)
        /\ \A d \in DeptPks :
            \A x \in MissingEmployees, y \in ForeignEmployees(A) :
                EmployeeDetailKind(A, c, d, x) = EmployeeDetailKind(A, c, d, y)

\* The answer worker p gives in this step is of kind k for the row pk.
Answers(p, k, pk) ==
    /\ req'[p].pk \in {0, pk}
    /\ IF k = 200
       THEN req'[p].pc = "done" => req'[p].code \notin {401, 403, 404}
       ELSE req'[p].pc = "done" /\ req'[p].code = k /\ (k = 404 => req'[p].pk = pk)

\* C28: for a user A whose role is manager and any request that addresses a
\* company, department or employee by ids in its path, the kind of answer
\* (success, Forbidden, NotFound) is the same whether the id names no row or a
\* row under a company managed by someone else; the handlers answer with the
\* kinds compared.
C28_ExistenceNotRevealed ==
    /\ [](\A A \in Accounts : role(A) = "manager" => Indistinguishable(A))
    /\ [][\A p \in Procs : Begins(p) =>
            /\ req'[p].op \in CompanyDetailOps
               => \E pk \in CompanyPks :
                     Answers(p, CompanyDetailKind(req'[p].user, pk,
                                     req'[p].op = "retrieve_company"), pk)
            /\ req'[p].op \in {"update_department", "destroy_department"}
               => \E c \in CompanyPks, pk \in DeptPks :
                     Answers(p, DepartmentDetailKind(req'[p].user, c, pk), pk)
            /\ req'[p].op \in {"update", "update_status", "destroy"}
               => \E c \in CompanyPks, d \in DeptPks, pk \in EmpIds :
                     Answers(p, EmployeeDetailKind(req'[p].user, c, d, pk), pk)
         ]_vars

====
